---- MODULE Spec2Model ----
(***************************************************************************)
(* Session establishment of the BC camera client:                          *)
(*   - BcCamera::new (crates/core/src/bc_protocol.rs): the discovery       *)
(*     fan-out over a tokio JoinSet, the transport and connection          *)
(*     construction, the start of the keep-alive and battery tasks;        *)
(*   - connect_and_login (src/utils.rs): connect, then login_with_maxenc;  *)
(*   - BcCamera::new_message_num: the atomic u16 message counter.          *)
(***************************************************************************)
EXTENDS Integers, Sequences, FiniteSets, TLC

(***************************************************************************)
(* Types                                                                   *)
(***************************************************************************)
\* The four discovery tasks of BcCamera::new, in spawn order.
Methods == {"Local", "Remote", "Map", "Relay"}

\* The variants of DiscoveryMethods matched in BcCamera::new.
DiscoveryMethods == {"None", "Local", "Remote", "Map", "Relay", "Debug"}

\* The variants of SocketAddrOrUid matched in BcCamera::new.
Endpoints == {"SocketAddr", "Uid"}

\* What a discovery task can end with: Ok(Ok(disc)), Ok(Err(e)), Err(join_error).
Outcomes == {"ok", "err", "panic"}

Unset == [tag |-> "Unset", val |-> "-"]
Ok(v) == [tag |-> "Ok", val |-> v]
Err(e) == [tag |-> "Err", val |-> e]

VARIABLES
    endpoint,     \* the SocketAddrOrUid variant handed to BcCamera::new
    method,       \* the DiscoveryMethods value of a Uid endpoint
    hangs,        \* the discovery tasks whose future never completes
    pc,           \* position of connect_and_login / BcCamera::new
    task,         \* per method: "unspawned", "running", "finished", "joined", "aborted"
    outcome,      \* per method: the outcome of a finished task, "-" before
    ready,        \* finished tasks not yet returned by join_next, in completion order
    arrived,      \* history: every completion, in completion order
    joined,       \* history: what join_next has returned, in order
    last_result,  \* the variable last_result of the discovery block
    transport,    \* "none", "tcp" or "udp": which (sink, source) pair exists
    discovery,    \* the method whose result was given to UdpSource::new_from_discovery
    conn,         \* "none" or "open": the BcConnection
    keepalive,    \* "none" or "started"
    battery,      \* "none" or "started"
    logged_in,    \* the AtomicBool logged_in of BcCamera
    ret,          \* what connect_and_login returned
    message_num,  \* the AtomicU16 message_num of BcCamera
    total,        \* history: number of new_message_num calls so far
    last_ret,     \* history: value returned by the latest new_message_num call
    waiting,      \* per caller: the outstanding request, or NoRequest
    cons,         \* the constructor call in progress (new_with_addr, ...), or Idle
    enc,          \* the max_encryption match of connect_and_login, or Idle
    md5,          \* a call of md5_string, or Idle
    mux,          \* the multiplexer's waiters and the replies in flight, or Idle
    udp           \* the UDP reliability layer, or Idle

discVars == <<endpoint, method, hangs, pc, task, outcome, ready, arrived, joined,
              last_result, transport, discovery, conn, keepalive, battery,
              logged_in, ret>>
numVars == <<message_num, total, last_ret, waiting>>
consVars == <<cons>>
pureVars == <<enc, md5>>
wireVars == <<mux, udp>>
\* What BcCamera::new and connect_and_login leave alone.
otherVars == <<numVars, consVars, pureVars, wireVars>>
vars == <<discVars, otherVars>>

\* The value of a component that takes no part in a specification.
Idle == "idle"

(***************************************************************************)
(* BcCamera::new, Uid endpoint: which tasks are spawned                    *)
(***************************************************************************)
DebugAllowsAll(m) ==
    CASE m = "None"   -> <<FALSE, FALSE, FALSE, FALSE>>
      [] m = "Local"  -> <<TRUE, FALSE, FALSE, FALSE>>
      [] m = "Remote" -> <<TRUE, TRUE, FALSE, FALSE>>
      [] m = "Map"    -> <<TRUE, TRUE, TRUE, FALSE>>
      [] m = "Relay"  -> <<TRUE, TRUE, TRUE, TRUE>>
      [] m = "Debug"  -> <<TRUE, TRUE, TRUE, TRUE>>

NoneRunsLocal(m) ==
    CASE m = "None"   -> <<TRUE, FALSE, FALSE, FALSE>>
      [] m = "Local"  -> <<TRUE, FALSE, FALSE, FALSE>>
      [] m = "Remote" -> <<TRUE, TRUE, FALSE, FALSE>>
      [] m = "Map"    -> <<TRUE, TRUE, TRUE, FALSE>>
      [] m = "Relay"  -> <<TRUE, TRUE, TRUE, TRUE>>
      [] m = "Debug"  -> <<FALSE, FALSE, FALSE, TRUE>>

\* (allow_local, allow_remote, allow_map, allow_relay)
Allow(m) ==
    CASE m = "None"   -> <<FALSE, FALSE, FALSE, FALSE>>
      [] m = "Local"  -> <<TRUE, FALSE, FALSE, FALSE>>
      [] m = "Remote" -> <<TRUE, TRUE, FALSE, FALSE>>
      [] m = "Map"    -> <<TRUE, TRUE, TRUE, FALSE>>
      [] m = "Relay"  -> <<TRUE, TRUE, TRUE, TRUE>>
      [] m = "Debug"  -> <<FALSE, FALSE, FALSE, TRUE>>

\* The four `if allow_x { set.spawn(...) }` statements.
SpawnSet(a) ==
    (IF a[1] THEN {"Local"} ELSE {}) \cup
    (IF a[2] THEN {"Remote"} ELSE {}) \cup
    (IF a[3] THEN {"Map"} ELSE {}) \cup
    (IF a[4] THEN {"Relay"} ELSE {})

(***************************************************************************)
(* BcCamera::new, Uid endpoint: the join loop                              *)
(***************************************************************************)
\* The tasks still owned by the JoinSet.
InSet(t) == {m \in Methods : t[m] \in {"running", "finished"}}

\* A preference order Local < Remote < Map < Relay, to set against arrival order.
Rank(m) == CASE m = "Local" -> 1 [] m = "Remote" -> 2 [] m = "Map" -> 3 [] m = "Relay" -> 4

PreferredIndex(q) ==
    CHOOSE i \in 1..Len(q) : \A j \in 1..Len(q) : Rank(q[i].m) <= Rank(q[j].m)

\* set.join_next() yields completed tasks in completion order: the oldest first.
JoinIndex(q) == 1

RemoveAt(q, i) == SubSeq(q, 1, i - 1) \o SubSeq(q, i + 1, Len(q))

SurfaceFailureArm(o, m) ==
    CASE o = "ok"    -> [brk |-> TRUE, result |-> Ok(m)]
      [] o = "err"   -> [brk |-> TRUE, result |-> Err("DiscoveryError")]
      [] o = "panic" -> [brk |-> TRUE, result |-> Err("OtherString")]
      [] o = "none"  -> [brk |-> TRUE, result |-> Err("DiscoveryTimeout")]

IgnorePanicArm(o, m) ==
    CASE o = "ok"    -> [brk |-> TRUE, result |-> Ok(m)]
      [] o = "err"   -> [brk |-> FALSE, result |-> Unset]
      [] o = "panic" -> [brk |-> FALSE, result |-> Unset]
      [] o = "none"  -> [brk |-> TRUE, result |-> Err("DiscoveryTimeout")]

\* The arms of `match set.join_next().await`; o = "none" is the None arm.
JoinArm(o, m) ==
    CASE o = "ok"    -> [brk |-> TRUE, result |-> Ok(m)]
      [] o = "err"   -> [brk |-> FALSE, result |-> Unset]
      [] o = "panic" -> [brk |-> TRUE, result |-> Err("OtherString")]
      [] o = "none"  -> [brk |-> TRUE, result |-> Err("DiscoveryTimeout")]

LeakTasks(t) == t

\* Leaving the discovery block drops the JoinSet, which aborts every task it
\* still owns; a finished task's unread result is discarded with it.
DropSet(t) == [m \in Methods |-> IF t[m] \in {"running", "finished"} THEN "aborted" ELSE t[m]]


(***************************************************************************)
(* State after the caller has chosen an endpoint; nothing is connected.    *)
(***************************************************************************)
DiscInit ==
    /\ endpoint \in Endpoints
    /\ method \in (IF endpoint = "Uid" THEN DiscoveryMethods ELSE {"None"})
    /\ hangs \in (IF endpoint = "Uid" THEN SUBSET Methods ELSE {{}})
    /\ pc = "new"
    /\ task = [m \in Methods |-> "unspawned"]
    /\ outcome = [m \in Methods |-> "-"]
    /\ ready = <<>>
    /\ arrived = <<>>
    /\ joined = <<>>
    /\ last_result = Unset
    /\ transport = "none"
    /\ discovery = "-"
    /\ conn = "none"
    /\ keepalive = "none"
    /\ battery = "none"
    /\ logged_in = FALSE
    /\ ret = Unset

\* An error leaves BcCamera::new through `?`; connect_camera and
\* connect_and_login hand it on to the caller.
Fail(e) ==
    /\ pc' = "returned"
    /\ ret' = Err(e)

\* SocketAddr arm: TcpSource::new(addr, ..).await?.split()
TcpNew ==
    /\ pc = "new"
    /\ endpoint = "SocketAddr"
    /\ \E ok \in BOOLEAN :
         IF ok THEN /\ transport' = "tcp"
                    /\ pc' = "conn"
                    /\ ret' = ret
               ELSE /\ transport' = transport
                    /\ Fail("TcpConnect")
    /\ UNCHANGED <<endpoint, method, hangs, task, outcome, ready, arrived, joined,
                   last_result, discovery, conn, keepalive, battery, logged_in>>
    /\ UNCHANGED otherVars

\* Uid arm: the JoinSet is created and the allowed tasks are spawned.
Spawn ==
    /\ pc = "new"
    /\ endpoint = "Uid"
    /\ task' = [m \in Methods |->
                  IF m \in SpawnSet(Allow(method)) THEN "running" ELSE "unspawned"]
    /\ pc' = "join"
    /\ UNCHANGED <<endpoint, method, hangs, outcome, ready, arrived, joined,
                   last_result, transport, discovery, conn, keepalive, battery,
                   logged_in, ret>>
    /\ UNCHANGED otherVars

\* A spawned task's future completes (Discovery::local/remote/map/relay
\* returned, or the task panicked).
Finish(m) ==
    /\ task[m] = "running"
    /\ m \notin hangs
    /\ \E o \in Outcomes :
         /\ outcome' = [outcome EXCEPT ![m] = o]
         /\ ready' = Append(ready, [m |-> m, o |-> o])
         /\ arrived' = Append(arrived, [m |-> m, o |-> o])
    /\ task' = [task EXCEPT ![m] = "finished"]
    /\ UNCHANGED <<endpoint, method, hangs, pc, joined, last_result, transport,
                   discovery, conn, keepalive, battery, logged_in, ret>>
    /\ UNCHANGED otherVars

\* One iteration of the loop: join_next resolves (a completed task, or None
\* when the set is empty), the arm runs, and on `break` the block ends: the
\* set is dropped and `?` either keeps the discovery or returns the error.
Join ==
    /\ pc = "join"
    /\ (ready # <<>> \/ InSet(task) = {})
    /\ LET have == ready # <<>>
           i == JoinIndex(ready)
           e == IF have THEN ready[i] ELSE [m |-> "-", o |-> "none"]
           arm == JoinArm(e.o, e.m)
           task1 == IF have THEN [task EXCEPT ![e.m] = "joined"] ELSE task
       IN /\ ready' = (IF have THEN RemoveAt(ready, i) ELSE ready)
          /\ joined' = (IF have THEN Append(joined, e) ELSE joined)
          /\ IF arm.brk
               THEN /\ last_result' = arm.result
                    /\ task' = DropSet(task1)
                    /\ IF arm.result.tag = "Ok"
                         THEN pc' = "udp" /\ ret' = ret
                         ELSE Fail(arm.result.val)
               ELSE /\ last_result' = last_result
                    /\ task' = task1
                    /\ pc' = pc
                    /\ ret' = ret
    /\ UNCHANGED <<endpoint, method, hangs, outcome, arrived, transport, discovery,
                   conn, keepalive, battery, logged_in>>
    /\ UNCHANGED otherVars

\* UdpSource::new_from_discovery(discovery, ..).await?.split()
UdpNew ==
    /\ pc = "udp"
    /\ \E ok \in BOOLEAN :
         IF ok THEN /\ transport' = "udp"
                    /\ discovery' = last_result.val
                    /\ pc' = "conn"
                    /\ ret' = ret
               ELSE /\ transport' = transport
                    /\ discovery' = discovery
                    /\ Fail("UdpConnect")
    /\ UNCHANGED <<endpoint, method, hangs, task, outcome, ready, arrived, joined,
                   last_result, conn, keepalive, battery, logged_in>>
    /\ UNCHANGED otherVars

\* BcConnection::new(sink, source).await?, then the struct literal:
\* message_num: AtomicU16::new(0), logged_in: AtomicBool::new(false).
ConnNew ==
    /\ pc = "conn"
    /\ \E ok \in BOOLEAN :
         IF ok THEN /\ conn' = "open"
                    /\ pc' = "keepalive"
                    /\ ret' = ret
               ELSE /\ conn' = conn
                    /\ Fail("Connection")
    /\ logged_in' = FALSE
    /\ message_num' = 0
    /\ UNCHANGED <<endpoint, method, hangs, task, outcome, ready, arrived, joined,
                   last_result, transport, discovery, keepalive, battery>>
    /\ UNCHANGED <<total, last_ret, waiting, consVars, pureVars, wireVars>>

SkipKeepalive(ok) ==
    IF ok THEN [k |-> "none", pc |-> "battery"] ELSE [k |-> "none", pc |-> "returned"]

\* me.keepalive().await?
KeepaliveStep(ok) ==
    IF ok THEN [k |-> "started", pc |-> "battery"] ELSE [k |-> "none", pc |-> "returned"]

Keepalive ==
    /\ pc = "keepalive"
    /\ \E ok \in BOOLEAN :
         LET r == KeepaliveStep(ok)
         IN /\ keepalive' = r.k
            /\ IF r.pc = "returned" THEN Fail("Keepalive") ELSE pc' = r.pc /\ ret' = ret
    /\ UNCHANGED <<endpoint, method, hangs, task, outcome, ready, arrived, joined,
                   last_result, transport, discovery, conn, battery, logged_in>>
    /\ UNCHANGED otherVars

\* me.monitor_battery(aux_info_format).await?; Ok(me) returns the camera to
\* connect_camera and on to connect_and_login, which goes on to log in.
MonitorBattery ==
    /\ pc = "battery"
    /\ \E ok \in BOOLEAN :
         IF ok THEN /\ battery' = "started"
                    /\ pc' = "login"
                    /\ ret' = ret
               ELSE /\ battery' = battery
                    /\ Fail("MonitorBattery")
    /\ UNCHANGED <<endpoint, method, hangs, task, outcome, ready, arrived, joined,
                   last_result, transport, discovery, conn, keepalive, logged_in>>
    /\ UNCHANGED otherVars

LoginFailureIgnored ==
    /\ pc = "login"
    /\ \E ok \in BOOLEAN :
         /\ logged_in' = ok
         /\ pc' = "returned"
         /\ ret' = Ok("camera")
    /\ UNCHANGED <<endpoint, method, hangs, task, outcome, ready, arrived, joined,
                   last_result, transport, discovery, conn, keepalive, battery>>
    /\ UNCHANGED otherVars

\* camera.login_with_maxenc(max_encryption).await.with_context(..)?; Ok(camera)
Login ==
    /\ pc = "login"
    /\ \E ok \in BOOLEAN :
         IF ok THEN /\ logged_in' = TRUE
                    /\ pc' = "returned"
                    /\ ret' = Ok("camera")
               ELSE /\ logged_in' = logged_in
                    /\ Fail("Login")
    /\ UNCHANGED <<endpoint, method, hangs, task, outcome, ready, arrived, joined,
                   last_result, transport, discovery, conn, keepalive, battery>>
    /\ UNCHANGED otherVars

(***************************************************************************)
(* BcCamera::new_message_num and the requests that hold its numbers        *)
(***************************************************************************)
\* Number of values of a u16 (message_num: AtomicU16).
U16 == 65536

\* Calls modelled beyond one full cycle of the counter.
Extra == 2

\* At most this many requests are outstanding at once.
MaxOutstanding == 2

\* Requests issued among the first Early calls may stay outstanding without
\* limit (a subscription that lasts as long as the session).
Early == 1

\* Every other request is answered, or given up, before MaxLag further
\* numbers have been handed out.
MaxLag == 2

MaxCalls == U16 + Extra

StaleFetchAdd(v) == [ret |-> v, new |-> v]

SaturatingFetchAdd(v) == [ret |-> v, new |-> IF v + 1 < U16 THEN v + 1 ELSE v]

\* self.message_num.fetch_add(1, Ordering::Relaxed): one atomic
\* read-modify-write that returns the previous value and wraps on overflow.
FetchAdd(v) == [ret |-> v, new |-> (v + 1) % U16]

\* The session as BcCamera::new leaves it, logged in by connect_and_login.
NumInit ==
    /\ endpoint = "SocketAddr"
    /\ method = "None"
    /\ hangs = {}
    /\ pc = "returned"
    /\ task = [m \in Methods |-> "unspawned"]
    /\ outcome = [m \in Methods |-> "-"]
    /\ ready = <<>>
    /\ arrived = <<>>
    /\ joined = <<>>
    /\ last_result = Unset
    /\ transport = "tcp"
    /\ discovery = "-"
    /\ conn = "open"
    /\ keepalive = "started"
    /\ battery = "started"
    /\ logged_in = TRUE
    /\ ret = Ok("camera")
    /\ message_num = 0
    /\ total = 0
    /\ last_ret = -1
    /\ waiting = {}
    /\ cons = Idle
    /\ enc = Idle
    /\ md5 = Idle
    /\ mux = Idle
    /\ udp = Idle

\* A caller takes a number with new_message_num and issues a request that
\* carries it; the request stays outstanding until its reply.
NewMessageNum ==
    /\ total < MaxCalls
    /\ Cardinality(waiting) < MaxOutstanding
    /\ \A r \in waiting : r.at < Early \/ total - r.at < MaxLag
    /\ LET f == FetchAdd(message_num)
       IN /\ message_num' = f.new
          /\ last_ret' = f.ret
          /\ waiting' = waiting \cup {[num |-> f.ret, at |-> total]}
    /\ total' = total + 1
    /\ UNCHANGED <<discVars, consVars, pureVars, wireVars>>

\* The reply carrying r's number arrives (or the request is given up): the
\* request is no longer outstanding.
Complete(r) ==
    /\ r \in waiting
    /\ waiting' = waiting \ {r}
    /\ UNCHANGED <<message_num, total, last_ret>>
    /\ UNCHANGED <<discVars, consVars, pureVars, wireVars>>

(***************************************************************************)
(* Specifications                                                          *)
(***************************************************************************)
Init ==
    /\ DiscInit
    /\ message_num = 0
    /\ total = 0
    /\ last_ret = -1
    /\ waiting = {}
    /\ cons = Idle
    /\ enc = Idle
    /\ md5 = Idle
    /\ mux = Idle
    /\ udp = Idle

Next ==
    \/ TcpNew
    \/ Spawn
    \/ \E m \in Methods : Finish(m)
    \/ Join
    \/ UdpNew
    \/ ConnNew
    \/ Keepalive
    \/ MonitorBattery
    \/ Login

\* connect_and_login from the call to its return.
Spec == Init /\ [][Next]_vars

\* The tokio runtime keeps polling runnable tasks: a step that can be taken
\* is eventually taken.
LiveSpec == Init /\ [][Next]_vars /\ WF_vars(Next)

NumNext ==
    \/ NewMessageNum
    \/ \E r \in waiting : Complete(r)

\* The message counter of an established session.
SpecNum == NumInit /\ [][NumNext]_vars

(***************************************************************************)
(* Properties of the discovery engine                                      *)
(***************************************************************************)
\* The discovery block has been left (by a break, then `?`).
EngineReturned == endpoint = "Uid" /\ pc \notin {"new", "join"}

StartedTasks == {m \in Methods : task[m] # "unspawned"}

\* C1: the discovery handed to the UDP transport is that of the first task
\* to complete successfully, in completion order, whatever its method: no
\* earlier completion was a success, and no method is preferred.
C1_FirstSuccessWins ==
    /\ last_result.tag = "Ok" =>
         \E i \in 1..Len(arrived) :
            /\ arrived[i] = [m |-> last_result.val, o |-> "ok"]
            /\ \A j \in 1..(i - 1) : arrived[j].o # "ok"
    /\ transport = "udp" => last_result.tag = "Ok" /\ discovery = last_result.val

\* Relay succeeded first, Local succeeded after it and before the engine
\* looked: the UDP transport is built from Relay's discovery.
C1_Witness ==
    /\ Len(arrived) >= 2
    /\ arrived[1] = [m |-> "Relay", o |-> "ok"]
    /\ arrived[2] = [m |-> "Local", o |-> "ok"]
    /\ transport = "udp"
    /\ discovery = "Relay"

\* C2: once a success is accepted no discovery task is left running or
\* unread, the accepted result is the last thing the engine ever joined, and
\* the transport is built from it alone.
C2_OthersCancelled ==
    last_result.tag = "Ok" =>
        /\ \A m \in Methods : task[m] \notin {"running", "finished"}
        /\ joined # <<>>
        /\ joined[Len(joined)] = [m |-> last_result.val, o |-> "ok"]
        /\ \A j \in 1..(Len(joined) - 1) : joined[j].o = "err"
        /\ discovery \in {"-", last_result.val}

\* Local failed, Remote was accepted, Map was still running and is aborted;
\* the session went on to log in over Remote's discovery.
C2_Witness ==
    /\ method = "Relay"
    /\ outcome["Local"] = "err"
    /\ last_result = Ok("Remote")
    /\ task["Map"] = "aborted"
    /\ task["Relay"] = "aborted"
    /\ discovery = "Remote"
    /\ logged_in

\* C3: when every spawned task completed with a failure the engine has
\* failed with DiscoveryTimeout, which is what the caller gets, and neither
\* a transport nor a connection exists.
C3_AllFailTimeout ==
    (EngineReturned /\ StartedTasks # {} /\ \A m \in StartedTasks : outcome[m] = "err") =>
        /\ last_result = Err("DiscoveryTimeout")
        /\ ret = Err("DiscoveryTimeout")
        /\ pc = "returned"
        /\ transport = "none"
        /\ conn = "none"

\* Only Local is enabled and it failed.
C3_Witness ==
    /\ method = "Local"
    /\ outcome["Local"] = "err"
    /\ ret = Err("DiscoveryTimeout")

\* C4: a single method's failure never ends the engine: if a success
\* arrived with only failures before it the engine returned that success,
\* and the engine gives up with DiscoveryTimeout only when no task is left.
C4_FailuresConsumed ==
    /\ EngineReturned =>
         \A i \in 1..Len(arrived) :
            (arrived[i].o = "ok" /\ \A j \in 1..(i - 1) : arrived[j].o = "err")
               => last_result = Ok(arrived[i].m)
    /\ (last_result.tag = "Err" /\ \A j \in 1..Len(joined) : joined[j].o = "err") =>
         /\ last_result = Err("DiscoveryTimeout")
         /\ \A m \in Methods : task[m] \in {"unspawned", "joined"}

\* Three failures were joined, then Relay's success.
C4_Witness ==
    /\ Len(joined) = 4
    /\ \A j \in 1..3 : joined[j].o = "err"
    /\ joined[4] = [m |-> "Relay", o |-> "ok"]
    /\ last_result = Ok("Relay")
    /\ pc = "udp"

\* C5: the tasks ever started are exactly those of the method's set: None {},
\* Local {Local}, Remote {Local, Remote}, Map {Local, Remote, Map}, Relay all
\* four, Debug {Relay}; nothing is started before the spawn or for an address.
C5_SpawnChain ==
    StartedTasks =
        IF endpoint # "Uid" \/ pc = "new" THEN {}
        ELSE CASE method = "None"   -> {}
               [] method = "Local"  -> {"Local"}
               [] method = "Remote" -> {"Local", "Remote"}
               [] method = "Map"    -> {"Local", "Remote", "Map"}
               [] method = "Relay"  -> {"Local", "Remote", "Map", "Relay"}
               [] method = "Debug"  -> {"Relay"}

\* Debug: the Relay task runs and is the only one.
C5_Witness ==
    /\ method = "Debug"
    /\ task["Relay"] = "running"
    /\ \A m \in Methods \ {"Relay"} : task[m] = "unspawned"

\* C6: the engine always eventually returns, whether or not every task
\* completes.
C6_AlwaysReturns == (endpoint = "Uid") => <>EngineReturned

(***************************************************************************)
(* Properties of the message counter                                       *)
(***************************************************************************)
\* C7: numbers handed out fewer than 65536 calls apart are distinct.
C7_DistinctBeforeWrap ==
    \A r, s \in waiting :
        (r # s /\ r.at - s.at < U16 /\ s.at - r.at < U16) => r.num # s.num

\* The first call and the 65536th are both outstanding: 0 and 0xFFFF.
C7_Witness ==
    /\ [num |-> 0, at |-> 0] \in waiting
    /\ [num |-> U16 - 1, at |-> U16 - 1] \in waiting

\* C8: the k-th call (from 0) returns k mod 65536 and leaves the counter at
\* (k + 1) mod 65536.
C8_KthCall ==
    /\ message_num = total % U16
    /\ total > 0 => last_ret = (total - 1) % U16

\* The call after the one that returned 0xFFFF returned 0.
C8_Witness ==
    /\ total = U16 + 1
    /\ last_ret = 0
    /\ message_num = 1

\* C9: no two outstanding requests hold the same message_num.
C9_AtMostOneLive ==
    \A r, s \in waiting : r # s => r.num # s.num

(***************************************************************************)
(* Properties of connect_and_login                                         *)
(***************************************************************************)
\* C10 as claimed: keepalive and monitor_battery are started only once the
\* login has succeeded.
C10_OnlyOnceLoggedIn ==
    (keepalive = "started" \/ battery = "started") => logged_in

\* C10 as the code has it: BcCamera::new starts keepalive, then
\* monitor_battery, after the connection exists and before login is called,
\* so whenever login is attempted or over both are already started.
C10_StartedBeforeLogin ==
    /\ (pc = "login" \/ logged_in \/ ret = Err("Login")) =>
          keepalive = "started" /\ battery = "started"
    /\ pc \in {"keepalive", "battery", "login"} => ~logged_in
    /\ (keepalive = "started" \/ battery = "started") => conn = "open"
    /\ battery = "started" => keepalive = "started"

\* Both tasks are started and login has not been called yet.
C10_Witness ==
    /\ pc = "login"
    /\ keepalive = "started"
    /\ battery = "started"
    /\ ~logged_in

(***************************************************************************)
(* The constructors: new_with_addr, new_with_uid, new_with_uid_and_addr,   *)
(* new_with_addr_or_uid.  Each resolves its host and calls BcCamera::new   *)
(* (the actions above) for one candidate endpoint at a time.               *)
(***************************************************************************)
Ctors == {"new_with_addr", "new_with_uid", "new_with_uid_and_addr", "new_with_addr_or_uid"}

\* The constructors that loop over an iterator of candidates.
LoopCtors == {"new_with_addr", "new_with_addr_or_uid"}

\* A host resolves to at most this many socket addresses.
MaxAddrs == 3

SocketAddr(i) == [kind |-> "SocketAddr", id |-> i]
Uid == [kind |-> "Uid", id |-> 0]

\* The addresses in the order the iterator yields them.
AddrSeq(n) == [i \in 1..n |-> SocketAddr(i)]

\* host.to_socket_addrs(): the addresses, or an io::Error.
ToSocketAddrs(dns) == IF dns.ok THEN Ok(AddrSeq(dns.n)) ELSE Err("Io")

\* host.to_socket_addrs_or_uid(): hostname resolution first; a host that
\* does not resolve is taken to be a UID.
ToSocketAddrsOrUid(dns) == IF dns.ok THEN Ok(AddrSeq(dns.n)) ELSE Ok(<<Uid>>)

Args(cands, hints) == [tag |-> "Ok", cands |-> cands, hints |-> hints]
NoArgs(e) == [tag |-> "Err", val |-> e]

ConnectAnyway(dns) ==
    LET r == ToSocketAddrs(dns)
    IN IF r.tag = "Ok" THEN Args(r.val, "None") ELSE Args(<<SocketAddr(1)>>, "None")

\* new_with_addr: match host.to_socket_addrs() { Ok(iter) => iter,
\* Err(_) => return Err(Error::AddrResolutionError) }
AddrArgs(dns) ==
    LET r == ToSocketAddrs(dns)
    IN IF r.tag = "Ok" THEN Args(r.val, "None") ELSE NoArgs("AddrResolutionError")

\* new_with_uid: SocketAddrOrUid::Uid(uid, None, discovery_method)
UidArgs == Args(<<Uid>>, "None")

FallBackToUidOnly(dns) ==
    LET r == ToSocketAddrs(dns)
    IN IF r.tag = "Ok" THEN Args(<<Uid>>, "Some") ELSE Args(<<Uid>>, "None")

\* new_with_uid_and_addr: Uid(uid, Some(host.to_socket_addrs()?.collect()), method)
UidAndAddrArgs(dns) ==
    LET r == ToSocketAddrs(dns)
    IN IF r.tag = "Ok" THEN Args(<<Uid>>, "Some") ELSE NoArgs(r.val)

\* new_with_addr_or_uid: match host.to_socket_addrs_or_uid() { Ok(iter) => iter,
\* Err(_) => return Err(Error::AddrResolutionError) }
AddrOrUidArgs(dns) ==
    LET r == ToSocketAddrsOrUid(dns)
    IN IF r.tag = "Ok" THEN Args(r.val, "None") ELSE NoArgs("AddrResolutionError")

KeepTrying(ok) == "continue"

\* if let Ok(cam) = Self::new(..).await { return Ok(cam); }
LoopAfter(ok) == IF ok THEN "return" ELSE "continue"

\* The locals of BcCamera::new at its entry for candidate c.
BeginNew(c, m) ==
    /\ endpoint' = c.kind
    /\ method' = (IF c.kind = "Uid" THEN m ELSE "None")
    /\ pc' = "new"
    /\ task' = [x \in Methods |-> "unspawned"]
    /\ outcome' = [x \in Methods |-> "-"]
    /\ ready' = <<>>
    /\ arrived' = <<>>
    /\ joined' = <<>>
    /\ last_result' = Unset
    /\ transport' = "none"
    /\ discovery' = "-"
    /\ conn' = "none"
    /\ keepalive' = "none"
    /\ battery' = "none"
    /\ logged_in' = FALSE
    /\ ret' = Unset
    /\ hangs' = hangs

\* The constructor returns: nothing of BcCamera::new moves.
CtorReturn ==
    /\ pc' = "ctor_returned"
    /\ UNCHANGED <<endpoint, method, hangs, task, outcome, ready, arrived, joined,
                   last_result, transport, discovery, conn, keepalive, battery,
                   logged_in, ret>>

\* The top of `for addr in addr_iter` at position i, with c the constructor's
\* state so far: call Self::new for the i-th candidate, or fall out of the
\* loop into Err(Error::CannotInitCamera).
Iterate(c, i) ==
    IF i <= Len(c.cands)
      THEN /\ cons' = [c EXCEPT !.idx = i]
           /\ BeginNew(c.cands[i], c.umethod)
      ELSE /\ cons' = [c EXCEPT !.idx = i, !.ret = Err("CannotInitCamera")]
           /\ CtorReturn

ConsInit ==
    /\ cons \in [name : Ctors,
                 dns : [ok : BOOLEAN, n : 0..MaxAddrs],
                 umethod : DiscoveryMethods,
                 cands : {<<>>}, hints : {"None"}, idx : {0},
                 tried : {<<>>}, ret : {Unset}]
    /\ cons.dns.ok \/ cons.dns.n = 0
    /\ endpoint = "-"
    /\ method = "None"
    /\ hangs = {}
    /\ pc = "ctor"
    /\ task = [m \in Methods |-> "unspawned"]
    /\ outcome = [m \in Methods |-> "-"]
    /\ ready = <<>>
    /\ arrived = <<>>
    /\ joined = <<>>
    /\ last_result = Unset
    /\ transport = "none"
    /\ discovery = "-"
    /\ conn = "none"
    /\ keepalive = "none"
    /\ battery = "none"
    /\ logged_in = FALSE
    /\ ret = Unset
    /\ message_num = 0
    /\ total = 0
    /\ last_ret = -1
    /\ waiting = {}
    /\ enc = Idle
    /\ md5 = Idle
    /\ mux = Idle
    /\ udp = Idle

\* The constructor is entered: the host is resolved and, unless that fails,
\* Self::new is called for the first candidate.
CtorCall ==
    /\ pc = "ctor"
    /\ LET r == CASE cons.name = "new_with_addr" -> AddrArgs(cons.dns)
                  [] cons.name = "new_with_uid" -> UidArgs
                  [] cons.name = "new_with_uid_and_addr" -> UidAndAddrArgs(cons.dns)
                  [] cons.name = "new_with_addr_or_uid" -> AddrOrUidArgs(cons.dns)
       IN IF r.tag = "Err"
            THEN /\ cons' = [cons EXCEPT !.ret = Err(r.val)]
                 /\ CtorReturn
            ELSE Iterate([cons EXCEPT !.cands = r.cands, !.hints = r.hints], 1)
    /\ UNCHANGED <<numVars, pureVars, wireVars>>

\* Self::new(..).await has resolved: Ok(me) (its pc is "login") or an error.
\* A looping constructor returns the camera or goes on to the next candidate;
\* the others return whatever Self::new returned.
NewReturns ==
    /\ pc \in {"login", "returned"}
    /\ LET ok == pc = "login"
           cand == cons.cands[cons.idx]
           c == [cons EXCEPT !.tried = Append(@, [cand |-> cand, ok |-> ok])]
       IN IF cons.name \in LoopCtors
            THEN IF LoopAfter(ok) = "return"
                   THEN /\ cons' = [c EXCEPT !.ret = Ok(cand)]
                        /\ CtorReturn
                   ELSE Iterate(c, cons.idx + 1)
            ELSE /\ cons' = [c EXCEPT !.ret = IF ok THEN Ok(cand) ELSE ret]
                 /\ CtorReturn
    /\ UNCHANGED <<numVars, pureVars, wireVars>>

ConsNext ==
    \/ CtorCall
    \/ NewReturns
    \/ TcpNew
    \/ Spawn
    \/ \E m \in Methods : Finish(m)
    \/ Join
    \/ UdpNew
    \/ ConnNew
    \/ Keepalive
    \/ MonitorBattery

\* One call of a constructor, from entry to return.
SpecCons == ConsInit /\ [][ConsNext]_vars

(***************************************************************************)
(* Properties of the constructors                                          *)
(***************************************************************************)
CtorDone == pc = "ctor_returned"

\* The candidates were tried one at a time in the order yielded, and nothing
\* was tried after a success.
TriedInOrder ==
    /\ Len(cons.tried) <= Len(cons.cands)
    /\ \A k \in 1..Len(cons.tried) : cons.tried[k].cand = cons.cands[k]
    /\ \A k \in 1..(Len(cons.tried) - 1) : ~cons.tried[k].ok

\* What a looping constructor returns: the first success, or
\* CannotInitCamera exactly when every candidate was tried and failed.
LoopResult ==
    CtorDone =>
        IF \E k \in 1..Len(cons.tried) : cons.tried[k].ok
          THEN cons.ret = Ok(cons.tried[Len(cons.tried)].cand)
          ELSE /\ cons.ret = Err("CannotInitCamera")
               /\ Len(cons.tried) = Len(cons.cands)

\* C11: new_with_addr returns AddrResolutionError without any attempt when
\* the host does not resolve; otherwise it tries the addresses in order,
\* returns the first camera that is built without trying a later address,
\* and returns CannotInitCamera exactly when every address failed.
C11_NewWithAddr ==
    (cons.name = "new_with_addr" /\ pc # "ctor") =>
        IF cons.dns.ok
          THEN /\ cons.cands = [i \in 1..cons.dns.n |-> [kind |-> "SocketAddr", id |-> i]]
               /\ TriedInOrder
               /\ LoopResult
               /\ cons.ret \notin {Err("AddrResolutionError"), Err("TcpConnect"),
                                   Err("Connection"), Err("Keepalive"),
                                   Err("MonitorBattery")}
          ELSE /\ CtorDone
               /\ cons.ret = Err("AddrResolutionError")
               /\ cons.tried = <<>>
               /\ cons.idx = 0
               /\ endpoint = "-"
               /\ transport = "none"

\* Three addresses: the first failed, the second gave the camera, the third
\* was never tried.
C11_Witness ==
    /\ cons.name = "new_with_addr"
    /\ cons.dns = [ok |-> TRUE, n |-> 3]
    /\ CtorDone
    /\ Len(cons.tried) = 2
    /\ ~cons.tried[1].ok
    /\ cons.tried[2].ok
    /\ cons.ret = Ok([kind |-> "SocketAddr", id |-> 2])

\* C12: new_with_addr_or_uid resolves the host first; for a host that
\* resolves every candidate is an address and no discovery task is ever
\* started; only a host that does not resolve is tried as a UID; candidates
\* are tried in order, the first success is returned and CannotInitCamera is
\* returned when every candidate failed.
C12_AddrOrUid ==
    (cons.name = "new_with_addr_or_uid" /\ pc # "ctor") =>
        /\ IF cons.dns.ok
             THEN /\ \A k \in 1..Len(cons.cands) : cons.cands[k].kind = "SocketAddr"
                  /\ Len(cons.cands) = cons.dns.n
                  /\ endpoint # "Uid"
                  /\ \A m \in Methods : task[m] = "unspawned"
             ELSE cons.cands = <<[kind |-> "Uid", id |-> 0]>>
        /\ TriedInOrder
        /\ LoopResult

\* The host does not resolve: it is tried as a UID, discovery runs and
\* fails, and the constructor returns CannotInitCamera.
C12_Witness ==
    /\ cons.name = "new_with_addr_or_uid"
    /\ ~cons.dns.ok
    /\ CtorDone
    /\ cons.tried = <<[cand |-> [kind |-> "Uid", id |-> 0], ok |-> FALSE]>>
    /\ \E m \in Methods : task[m] = "joined"
    /\ cons.ret = Err("CannotInitCamera")

\* C20: when the hint host of new_with_uid_and_addr does not resolve the
\* constructor returns the resolution error at once: BcCamera::new is not
\* called and no discovery task is started, whatever the discovery method.
C20_HintMustResolve ==
    (cons.name = "new_with_uid_and_addr" /\ pc # "ctor") =>
        IF cons.dns.ok
          THEN cons.cands = <<[kind |-> "Uid", id |-> 0]>> /\ cons.hints = "Some"
          ELSE /\ CtorDone
               /\ cons.ret = Err("Io")
               /\ cons.tried = <<>>
               /\ cons.idx = 0
               /\ endpoint = "-"
               /\ \A m \in Methods : task[m] = "unspawned"

\* The hint does not resolve and every method is allowed: the error is
\* returned and nothing was started.
C20_Witness ==
    /\ cons.name = "new_with_uid_and_addr"
    /\ ~cons.dns.ok
    /\ cons.umethod = "Relay"
    /\ CtorDone
    /\ cons.ret = Err("Io")
    /\ \A m \in Methods : task[m] = "unspawned"

(***************************************************************************)
(* More properties of connect_and_login and of the discovery engine        *)
(***************************************************************************)
\* C13: connect_and_login hands out a camera only after the connect step and
\* then the login have both succeeded; a login step always ends the call, so
\* a failed login is returned as the error, with no camera and no retry.
C13_LoginTerminal ==
    /\ [](ret.tag = "Ok" =>
            /\ ret = Ok("camera")
            /\ pc = "returned"
            /\ logged_in
            /\ conn = "open"
            /\ transport # "none")
    /\ [](ret = Err("Login") => pc = "returned" /\ ~logged_in /\ conn = "open")
    /\ [][pc = "login" =>
            /\ pc' = "returned"
            /\ \/ ret' = Ok("camera") /\ logged_in'
               \/ ret' = Err("Login") /\ ~logged_in']_vars
    /\ [][(logged_in' /\ ~logged_in) => (pc = "login" /\ conn = "open")]_vars
    /\ [][pc = "returned" => UNCHANGED <<pc, ret, logged_in>>]_vars

\* The connection was built, login was called and failed: the error is what
\* the caller has.
C13_Witness ==
    /\ ret = Err("Login")
    /\ pc = "returned"
    /\ conn = "open"
    /\ keepalive = "started"
    /\ ~logged_in

\* C18: with DiscoveryMethods::None no task is ever spawned, the first
\* join_next can resolve at once (the set is empty, whatever the tasks would
\* have done), and BcCamera::new fails with DiscoveryTimeout with nothing
\* joined and no transport.
C18_NoneFailsAtOnce ==
    (endpoint = "Uid" /\ method = "None") =>
        /\ \A m \in Methods : task[m] = "unspawned"
        /\ arrived = <<>>
        /\ joined = <<>>
        /\ pc \in {"new", "join", "returned"}
        /\ pc = "join" => ENABLED Join
        /\ pc = "returned" =>
              /\ last_result = Err("DiscoveryTimeout")
              /\ ret = Err("DiscoveryTimeout")
              /\ transport = "none"
              /\ conn = "none"

\* None, with every discovery future one that would never complete: the
\* call has returned DiscoveryTimeout all the same.
C18_Witness ==
    /\ endpoint = "Uid"
    /\ method = "None"
    /\ hangs = Methods
    /\ pc = "returned"
    /\ ret = Err("DiscoveryTimeout")

\* C19: a panicked task, once joined, ends the engine on the spot: it is the
\* last thing joined, the error is Other(string) and not DiscoveryTimeout,
\* every other task is aborted and no transport is built; and Other(string)
\* comes from nothing else.
C19_PanicStopsEngine ==
    /\ \A j \in 1..Len(joined) :
          joined[j].o = "panic" =>
             /\ j = Len(joined)
             /\ last_result = Err("OtherString")
             /\ ret = Err("OtherString")
             /\ pc = "returned"
             /\ \A m \in Methods : task[m] \notin {"running", "finished"}
             /\ transport = "none"
    /\ last_result = Err("OtherString") =>
          joined # <<>> /\ joined[Len(joined)].o = "panic"

\* Local panicked while Remote, which was going to complete, was still
\* running: Remote is aborted and the caller gets Other(string).
C19_Witness ==
    /\ joined = <<[m |-> "Local", o |-> "panic"]>>
    /\ "Remote" \notin hangs
    /\ task["Remote"] = "aborted"
    /\ outcome["Remote"] = "-"
    /\ ret = Err("OtherString")

(***************************************************************************)
(* connect_and_login: the match on camera_config.max_encryption            *)
(***************************************************************************)
LowerLetters == <<"a", "b", "c", "d", "e", "f", "g", "h", "i", "j", "k", "l", "m",
                  "n", "o", "p", "q", "r", "s", "t", "u", "v", "w", "x", "y", "z">>
UpperLetters == <<"A", "B", "C", "D", "E", "F", "G", "H", "I", "J", "K", "L", "M",
                  "N", "O", "P", "Q", "R", "S", "T", "U", "V", "W", "X", "Y", "Z">>

\* char::to_lowercase on the characters modelled: an upper-case letter
\* becomes its lower-case letter, anything else stays.
Lower(c) ==
    IF \E i \in 1..Len(UpperLetters) : UpperLetters[i] = c
      THEN LowerLetters[CHOOSE i \in 1..Len(UpperLetters) : UpperLetters[i] = c]
      ELSE c

\* str::to_lowercase
ToLowercase(s) == [i \in 1..Len(s) |-> Lower(s[i])]

\* The arms "none", "bcencrypt", "aes" and _ of the match.
MatchArm(s) ==
    CASE s = <<"n", "o", "n", "e">> -> "None"
      [] s = <<"b", "c", "e", "n", "c", "r", "y", "p", "t">> -> "BcEncrypt"
      [] s = <<"a", "e", "s">> -> "Aes"
      [] OTHER -> "Aes"

CaseSensitiveMatch(s) == MatchArm(s)

\* match camera_config.max_encryption.to_lowercase().as_str() { .. }
MaxEncryptionOf(s) == MatchArm(ToLowercase(s))

\* The session of NumInit: built and logged in, no message number taken yet.
SessionIdle ==
    /\ endpoint = "SocketAddr"
    /\ method = "None"
    /\ hangs = {}
    /\ pc = "returned"
    /\ task = [m \in Methods |-> "unspawned"]
    /\ outcome = [m \in Methods |-> "-"]
    /\ ready = <<>>
    /\ arrived = <<>>
    /\ joined = <<>>
    /\ last_result = Unset
    /\ transport = "tcp"
    /\ discovery = "-"
    /\ conn = "open"
    /\ keepalive = "started"
    /\ battery = "started"
    /\ logged_in = TRUE
    /\ ret = Ok("camera")
    /\ message_num = 0
    /\ total = 0
    /\ last_ret = -1
    /\ waiting = {}

\* Configured values: the three names, near misses and the empty string, all
\* written in lower case.
EncWords ==
    { <<"n", "o", "n", "e">>,
      <<"b", "c", "e", "n", "c", "r", "y", "p", "t">>,
      <<"a", "e", "s">>,
      <<>>,
      <<"n", "o", "n">>,
      <<"n", "o", "n", "e", "s">>,
      <<"a", "e", "s", "2">>,
      <<"x", "o", "r">>,
      <<"n", "o", "n", "e", " ">> }

\* s with the letters at the positions in up written in upper case.
WithCase(s, up) ==
    [i \in 1..Len(s) |->
        IF i \in up /\ \E k \in 1..Len(LowerLetters) : LowerLetters[k] = s[i]
          THEN UpperLetters[CHOOSE k \in 1..Len(LowerLetters) : LowerLetters[k] = s[i]]
          ELSE s[i]]

EncInit ==
    /\ SessionIdle
    /\ \E w \in EncWords : \E up \in SUBSET (1..Len(w)) :
          enc = [input |-> WithCase(w, up), result |-> "unset"]
    /\ cons = Idle
    /\ md5 = Idle
    /\ mux = Idle
    /\ udp = Idle

\* The match is evaluated on the configured string.
MatchMaxEncryption ==
    /\ enc.result = "unset"
    /\ enc' = [enc EXCEPT !.result = MaxEncryptionOf(enc.input)]
    /\ UNCHANGED <<discVars, numVars, consVars, md5, wireVars>>

\* The max_encryption match over the configured strings.
SpecEnc == EncInit /\ [][MatchMaxEncryption]_vars

\* s is word (lower case) up to the case of its letters.
CaseVariant(s, word) ==
    /\ Len(s) = Len(word)
    /\ s = WithCase(word, {k \in 1..Len(s) : s[k] # word[k]})

\* C14: every case variant of "none" gives None, of "bcencrypt" BcEncrypt, of
\* "aes" Aes, and every other string, the empty one included, gives Aes;
\* the match always yields one of the three levels.
C14_MaxEncryption ==
    enc.result # "unset" =>
        enc.result =
            IF CaseVariant(enc.input, <<"n", "o", "n", "e">>) THEN "None"
            ELSE IF CaseVariant(enc.input, <<"b", "c", "e", "n", "c", "r", "y", "p", "t">>)
                   THEN "BcEncrypt"
                   ELSE "Aes"

\* "BcENCrYpT" gave BcEncrypt.
C14_Witness ==
    /\ enc.input = <<"B", "c", "E", "N", "C", "r", "Y", "p", "T">>
    /\ enc.result = "BcEncrypt"

(***************************************************************************)
(* md5_string                                                              *)
(***************************************************************************)
HexDigits == <<"0", "1", "2", "3", "4", "5", "6", "7",
               "8", "9", "A", "B", "C", "D", "E", "F">>

Nul == "\\0"

Md5Truncs == {"ZeroLast", "Truncate"}

\* No string yet: md5_string has not been called with this Md5Trunc.
NotCalled == <<>>

\* md5::compute("admin"), the digest the test of md5_string relies on.
AdminDigest == <<33, 35, 47, 41, 122, 87, 165, 167, 67, 137, 74, 14, 74, 128, 31, 195>>

\* Byte values tried in the varied positions of the digest.
ByteSamples == {0, 9, 10, 15, 16, 31, 128, 195, 240, 255}

\* md5::compute yields 16 bytes; the digests tried are the digest of "admin"
\* with its first and its last two bytes varied.
Digests ==
    { [AdminDigest EXCEPT ![1] = a, ![15] = b, ![16] = c] :
        a \in {0, 33}, b \in ByteSamples, c \in ByteSamples }

\* format!("{:X}", digest): two upper-case hex digits for each byte.
UpperHex(d) ==
    [i \in 1..(2 * Len(d)) |->
        IF i % 2 = 1 THEN HexDigits[(d[(i + 1) \div 2] \div 16) + 1]
                     ELSE HexDigits[(d[i \div 2] % 16) + 1]]

\* String::replace_range(start.., with): the first start characters stay,
\* the rest is replaced.
ReplaceRange(s, start, with) == SubSeq(s, 1, start) \o with

Md5StringFrom32(d, trunc) ==
    ReplaceRange(UpperHex(d) \o <<Nul>>, 32, IF trunc = "Truncate" THEN <<>> ELSE <<Nul>>)

\* md5_string, given the digest of its input.
Md5String(d, trunc) ==
    ReplaceRange(UpperHex(d) \o <<Nul>>, 31, IF trunc = "Truncate" THEN <<>> ELSE <<Nul>>)

Md5Init ==
    /\ SessionIdle
    /\ \E d \in Digests :
          md5 = [digest |-> d, out |-> [t \in Md5Truncs |-> NotCalled]]
    /\ cons = Idle
    /\ enc = Idle
    /\ mux = Idle
    /\ udp = Idle

\* One call md5_string(input, trunc).
CallMd5String(trunc) ==
    /\ md5.out[trunc] = NotCalled
    /\ md5' = [md5 EXCEPT !.out[trunc] = Md5String(md5.digest, trunc)]
    /\ UNCHANGED <<discVars, numVars, consVars, enc, wireVars>>

Md5Next ==
    \/ CallMd5String("Truncate")
    \/ CallMd5String("ZeroLast")

\* md5_string over the digests tried.
SpecMd5 == Md5Init /\ [][Md5Next]_vars

\* C15: Truncate gives exactly the first 31 characters of the 32-character
\* upper-case hex digest and nothing else; ZeroLast gives those 31 characters
\* followed by one NUL, 32 in all; so ZeroLast is Truncate followed by NUL.
C15_Md5String ==
    LET hex == UpperHex(md5.digest)
        tr == md5.out["Truncate"]
        zl == md5.out["ZeroLast"]
    IN /\ Len(hex) = 32
       /\ \A i \in 1..Len(hex) : \E k \in 1..Len(HexDigits) : hex[i] = HexDigits[k]
       /\ tr # NotCalled =>
            /\ Len(tr) = 31
            /\ \A i \in 1..31 : tr[i] = hex[i]
       /\ zl # NotCalled =>
            /\ Len(zl) = 32
            /\ \A i \in 1..31 : zl[i] = hex[i]
            /\ zl[32] = Nul
       /\ (tr # NotCalled /\ zl # NotCalled) => zl = tr \o <<Nul>>

\* md5_string("admin", Truncate) is "21232F297A57A5A743894A0E4A801FC" and
\* md5_string("admin", ZeroLast) has been computed too.
C15_Witness ==
    /\ md5.digest = AdminDigest
    /\ md5.out["Truncate"] =
         <<"2", "1", "2", "3", "2", "F", "2", "9", "7", "A", "5", "7", "A", "5", "A", "7",
           "4", "3", "8", "9", "4", "A", "0", "E", "4", "A", "8", "0", "1", "F", "C">>
    /\ md5.out["ZeroLast"] # NotCalled

(***************************************************************************)
(* The connection multiplexer: waiters keyed by message_num, subscribers   *)
(* keyed by message_id, one reader task routing inbound frames.            *)
(***************************************************************************)
\* The message_num of the first request of the scenario.
FirstNum == 42

\* Requests issued on the connection.
MaxRequests == 2

\* Frames the camera sends carrying one message_num.
MaxReplies == 1

MsgIds == {"ping", "video"}

MuxNums == FirstNum..(FirstNum + MaxRequests - 1)

KeepWaiter(waiters, n) == waiters

\* The waiter of n leaves the map.
RemoveWaiter(waiters, n) == waiters \ {n}

\* The routing rule for an inbound frame.
RouteOf(m, f) ==
    IF f.num \in m.waiters THEN "waiter"
    ELSE IF f.id \in m.subs THEN "subscriber"
    ELSE "drop"

MuxInit ==
    /\ SessionIdle
    /\ \E subs \in SUBSET MsgIds :
          mux = [ next |-> FirstNum,
                  subs |-> subs,
                  waiters |-> {},
                  id |-> [n \in MuxNums |-> "-"],
                  state |-> [n \in MuxNums |-> "unsent"],
                  got |-> [n \in MuxNums |-> -1],
                  sent |-> [n \in MuxNums |-> 0],
                  inbound |-> {},
                  late |-> {},
                  published |-> {},
                  dropped |-> {} ]
    /\ cons = Idle
    /\ enc = Idle
    /\ md5 = Idle
    /\ udp = Idle

\* request(frame): the waiter is registered and the frame written.
Request(id) ==
    /\ mux.next \in MuxNums
    /\ mux' = [mux EXCEPT !.waiters = @ \cup {mux.next},
                          !.id[mux.next] = id,
                          !.state[mux.next] = "pending",
                          !.next = @ + 1]
    /\ UNCHANGED <<discVars, numVars, consVars, pureVars, udp>>

\* The caller gives up on a pending request.
Cancel(n) ==
    /\ mux.state[n] = "pending"
    /\ mux' = [mux EXCEPT !.waiters = RemoveWaiter(@, n),
                          !.state[n] = "cancelled"]
    /\ UNCHANGED <<discVars, numVars, consVars, pureVars, udp>>

\* The camera answers a request it was sent: a frame with the request's
\* message_id and message_num reaches the transport.
CameraReply(n) ==
    /\ mux.state[n] # "unsent"
    /\ mux.sent[n] < MaxReplies
    /\ n \notin mux.inbound
    /\ mux' = [mux EXCEPT !.inbound = @ \cup {n},
                          !.sent[n] = @ + 1,
                          !.late = IF mux.state[n] = "cancelled" THEN @ \cup {n} ELSE @]
    /\ UNCHANGED <<discVars, numVars, consVars, pureVars, udp>>

\* The reader task decodes one frame and routes it.
Route(n) ==
    /\ n \in mux.inbound
    /\ LET f == [num |-> n, id |-> mux.id[n]]
           r == RouteOf(mux, f)
       IN mux' =
            IF r = "waiter"
              THEN [mux EXCEPT !.inbound = @ \ {n},
                               !.waiters = RemoveWaiter(@, n),
                               !.state[n] = "replied",
                               !.got[n] = n]
            ELSE IF r = "subscriber"
              THEN [mux EXCEPT !.inbound = @ \ {n},
                               !.published = @ \cup {n}]
              ELSE [mux EXCEPT !.inbound = @ \ {n},
                               !.dropped = @ \cup {n}]
    /\ UNCHANGED <<discVars, numVars, consVars, pureVars, udp>>

MuxNext ==
    \/ \E id \in MsgIds : Request(id)
    \/ \E n \in MuxNums : Cancel(n)
    \/ \E n \in MuxNums : CameraReply(n)
    \/ \E n \in MuxNums : Route(n)

\* The multiplexer under requests, cancellations and camera replies.
SpecMux == MuxInit /\ [][MuxNext]_vars

\* C16: a cancelled request has no waiter from the step that cancels it; a
\* frame carrying a cancelled message_num reaches no waiter (the request stays
\* cancelled, and with no subscriber for its message_id the frame is dropped);
\* and a frame whose message_num has a waiter is delivered to exactly that
\* waiter, whatever was cancelled before.
C16_CancelDropsLateReply ==
    /\ [](\A n \in MuxNums :
            /\ mux.state[n] = "cancelled" => n \notin mux.waiters
            /\ mux.state[n] = "cancelled" => mux.got[n] = -1
            /\ mux.state[n] = "replied" => mux.got[n] = n
            /\ n \in mux.waiters <=> mux.state[n] = "pending")
    /\ [][\A n \in MuxNums :
            /\ mux.state[n] = "cancelled" => mux'.state[n] = "cancelled"
            /\ (mux.state[n] = "cancelled" /\ n \in mux.inbound /\ n \notin mux'.inbound)
                 => /\ mux'.waiters = mux.waiters
                    /\ mux'.state = mux.state
                    /\ mux.id[n] \notin mux.subs => n \in mux'.dropped
            /\ (mux.state[n] = "pending" /\ n \in mux.inbound /\ n \notin mux'.inbound)
                 => /\ mux'.state[n] = "replied"
                    /\ mux'.got[n] = n]_vars

\* Request 42 was cancelled, the camera replied 42 afterwards and the frame
\* was dropped, and request 43 has its own reply.
C16_Witness ==
    /\ mux.state[FirstNum] = "cancelled"
    /\ FirstNum \in mux.late
    /\ FirstNum \in mux.dropped
    /\ mux.state[FirstNum + 1] = "replied"
    /\ mux.got[FirstNum + 1] = FirstNum + 1

(***************************************************************************)
(* The UDP reliability layer: sequence numbers, retransmission on a timer, *)
(* cumulative acknowledgement, a receive window that buffers out-of-order  *)
(* arrivals until contiguous.  The channel may lose, duplicate and reorder *)
(* datagrams in both directions.                                           *)
(***************************************************************************)
\* The sequence number of the first data packet of the scenario.
FirstSeq == 6

\* Data packets the sender has to send.
MaxPackets == 3

\* The sliding window, in packets.
Window == 2

\* Timer expiries without progress after which the connection fails.
MaxRetries == 2

\* The BC frame carried by the packet with sequence number q, named by its
\* message_num.
FrameOf(q) == FirstNum + (q - FirstSeq)

Datagram(q) == [seq |-> q, payload |-> FrameOf(q)]

RECURSIVE Flush(_)
\* Buffered packets are handed upward while the next expected one is there.
Flush(r) ==
    IF \E b \in r.buf : b.seq = r.next
      THEN LET b == CHOOSE x \in r.buf : x.seq = r.next
           IN Flush([next |-> r.next + 1,
                     buf |-> r.buf \ {b},
                     delivered |-> Append(r.delivered, b.payload)])
      ELSE r

AcceptOnArrival(r, d) ==
    IF d.seq < r.next
      THEN r
      ELSE [r EXCEPT !.next = d.seq + 1, !.delivered = Append(@, d.payload)]

\* The receiver's handling of one data packet: a duplicate, or a packet
\* beyond the window, is dropped; anything else is buffered and the contiguous
\* run is delivered.
Accept(r, d) ==
    IF \/ d.seq < r.next
       \/ d.seq >= r.next + Window
       \/ \E b \in r.buf : b.seq = d.seq
      THEN r
      ELSE Flush([r EXCEPT !.buf = @ \cup {d}])

\* Sequence numbers sent and not yet acknowledged.
Unacked == udp.acked..(FirstSeq + Len(udp.sent) - 1)

UdpInit ==
    /\ SessionIdle
    /\ udp = [ sent |-> <<>>,
               acked |-> FirstSeq,
               retries |-> 0,
               failed |-> FALSE,
               net |-> {},
               acks |-> {},
               lost |-> {},
               rcv |-> [next |-> FirstSeq, buf |-> {}, delivered |-> <<>>] ]
    /\ cons = Idle
    /\ enc = Idle
    /\ md5 = Idle
    /\ mux = Idle

\* The next frame goes out with the next sequence number, window permitting.
SendData ==
    /\ ~udp.failed
    /\ Len(udp.sent) < MaxPackets
    /\ FirstSeq + Len(udp.sent) < udp.acked + Window
    /\ LET q == FirstSeq + Len(udp.sent)
       IN udp' = [udp EXCEPT !.sent = Append(@, FrameOf(q)),
                             !.net = @ \cup {Datagram(q)}]
    /\ UNCHANGED <<discVars, numVars, consVars, pureVars, mux>>

\* The retransmit timer fires: every unacknowledged packet is resent, or the
\* connection fails once the retry count is used up.
RetransmitTimer ==
    /\ ~udp.failed
    /\ Unacked # {}
    /\ udp' = IF udp.retries < MaxRetries
                THEN [udp EXCEPT !.retries = @ + 1,
                                 !.net = @ \cup {Datagram(q) : q \in Unacked}]
                ELSE [udp EXCEPT !.failed = TRUE]
    /\ UNCHANGED <<discVars, numVars, consVars, pureVars, mux>>

\* The channel loses a datagram.
LoseData(d) ==
    /\ d \in udp.net
    /\ udp' = [udp EXCEPT !.net = @ \ {d}, !.lost = @ \cup {d.seq}]
    /\ UNCHANGED <<discVars, numVars, consVars, pureVars, mux>>

\* A datagram arrives, in any order; with again the channel keeps a copy
\* that arrives once more.  The receiver answers with its cumulative ACK.
ReceiveData(d, again) ==
    /\ ~udp.failed
    /\ d \in udp.net
    /\ LET r == Accept(udp.rcv, d)
       IN udp' = [udp EXCEPT !.net = IF again THEN @ ELSE @ \ {d},
                             !.rcv = r,
                             !.acks = @ \cup {r.next}]
    /\ UNCHANGED <<discVars, numVars, consVars, pureVars, mux>>

\* The channel loses an ACK.
LoseAck(a) ==
    /\ a \in udp.acks
    /\ udp' = [udp EXCEPT !.acks = @ \ {a}]
    /\ UNCHANGED <<discVars, numVars, consVars, pureVars, mux>>

\* A cumulative ACK arrives, in any order; an old one changes nothing.
ReceiveAck(a, again) ==
    /\ ~udp.failed
    /\ a \in udp.acks
    /\ udp' = [udp EXCEPT !.acks = IF again THEN @ ELSE @ \ {a},
                          !.acked = IF a > @ THEN a ELSE @,
                          !.retries = IF a > udp.acked THEN 0 ELSE @]
    /\ UNCHANGED <<discVars, numVars, consVars, pureVars, mux>>

UdpNext ==
    \/ SendData
    \/ RetransmitTimer
    \/ \E d \in udp.net : LoseData(d)
    \/ \E d \in udp.net : \E again \in BOOLEAN : ReceiveData(d, again)
    \/ \E a \in udp.acks : LoseAck(a)
    \/ \E a \in udp.acks : \E again \in BOOLEAN : ReceiveAck(a, again)

\* The reliability layer over a channel that loses, duplicates and reorders.
\* The sender's own steps are not put off for ever: a frame the window admits
\* is sent, and the retransmit timer fires while packets are unacknowledged.
SpecUdp ==
    /\ UdpInit
    /\ [][UdpNext]_vars
    /\ WF_vars(SendData)
    /\ WF_vars(RetransmitTimer)

\* C17: what the reliability layer has delivered upward is at every moment
\* an initial part of what was sent, frame for frame: no gap, no duplicate, no
\* reordering; the sender never counts as acknowledged a frame that was not
\* delivered, so once every frame is acknowledged the delivered sequence
\* equals the sent one; what was delivered is never taken back; and the layer
\* ends with every frame delivered and acknowledged unless the retry count
\* runs out and the connection fails.
C17_DeliveredEqualsSent ==
    /\ [](/\ Len(udp.rcv.delivered) <= Len(udp.sent)
          /\ \A i \in 1..Len(udp.rcv.delivered) : udp.rcv.delivered[i] = udp.sent[i]
          /\ udp.rcv.next = FirstSeq + Len(udp.rcv.delivered)
          /\ udp.acked <= udp.rcv.next
          /\ udp.acked = FirstSeq + Len(udp.sent) => udp.rcv.delivered = udp.sent)
    /\ [][/\ Len(udp'.rcv.delivered) >= Len(udp.rcv.delivered)
          /\ SubSeq(udp'.rcv.delivered, 1, Len(udp.rcv.delivered)) = udp.rcv.delivered
          /\ Len(udp'.sent) >= Len(udp.sent)
          /\ SubSeq(udp'.sent, 1, Len(udp.sent)) = udp.sent]_vars
    /\ <>(\/ udp.failed
          \/ /\ Len(udp.sent) = MaxPackets
             /\ udp.rcv.delivered = udp.sent
             /\ udp.acked = FirstSeq + MaxPackets)

\* Packet 7 was lost, resent and delivered: the frames of 6, 7 and 8 arrived
\* upward in the order sent, and the sender has them all acknowledged.
C17_Witness ==
    /\ (FirstSeq + 1) \in udp.lost
    /\ Len(udp.sent) = MaxPackets
    /\ udp.rcv.delivered = udp.sent
    /\ udp.acked = FirstSeq + MaxPackets
    /\ ~udp.failed

====
